---- MODULE Spec2Model ----
(***************************************************************************)
(* A model of the presentational rendering contract of the portfolio site: *)
(* the ProjectPreview component (src/components/elements/ProjectPreview)   *)
(* as a function from its props to the React element tree it returns, the  *)
(* Greeting component, the declared profile records, and drivers that call *)
(* the components on the records of the content registries.                *)
(*                                                                         *)
(* JavaScript values are represented as follows.                           *)
(*   - an object is a record; an optional property that is omitted is      *)
(*     simply not in the record's DOMAIN (reading it gives undefined);     *)
(*   - an array is a sequence (1-based here, 0-based in the source);       *)
(*   - null is the record Null;                                            *)
(*   - a value of type string | null is Str(s) or Null;                    *)
(*   - a React element <T a={x}>c1 c2</T> is the record                    *)
(*     [type |-> "T", a |-> x, children |-> <<c1, c2>>].                   *)
(***************************************************************************)
EXTENDS Naturals, Sequences, FiniteSets, TLC

VARIABLES
    projects,   \* the content registry: the list of Project records
    project,    \* props.project of the latest ProjectPreview call
    output,     \* what that call returned
    history,    \* the calls made so far, oldest first: [project, output]
    fresh,      \* what a very first call returns: for no project (fresh.none)
                \* and for each registry record (fresh.of[i])
    profiles,   \* the content registry: the declared profile records
    greetings,  \* what the Greeting calls made so far returned, oldest first
    frame,      \* the ProjectPreview call that is executing, Null when none:
                \* [project, pc, index, lines]
    publishers  \* the Publisher enumeration object as loaded: member name to
                \* display string

vars == <<projects, project, output, history, fresh, profiles, greetings, frame,
          publishers>>

----------------------------------------------------------------------------
(* Bounds of the model *)

\* longest summary list of a registry project
MaxLines == 2
\* longest tags list of a registry project
MaxTags == 1
\* number of ProjectPreview calls in one behaviour
MaxCalls == 3
\* number of component calls, Greeting included, in one behaviour of the site
MaxSiteCalls == 2

----------------------------------------------------------------------------
(* JavaScript values *)

Null == [type |-> "null"]

Str(s) == [type |-> "string", value |-> s]

\* o.f is not undefined
Defined(o, f) == f \in DOMAIN o

\* ToBoolean(o.f) for a property that holds an array or an object when it is
\* there: undefined is falsy, every object is truthy, the empty array included
Truthy(o, f) == Defined(o, f)

SeqsUpTo(S, n) == UNION {[1..k -> S] : k \in 0..n}

Range(s) == {s[i] : i \in DOMAIN s}

\* the records {} and {f: v} for v in S
Optional(f, S) == {<<>>} \cup {f :> v : v \in S}

----------------------------------------------------------------------------
(* The entity types and the values the registry draws from *)

Names == {"Demo", "Other"}

SummaryLine == {Str("One line."), Str(""), Null}

Tag == {[name |-> "t1"], [name |-> "t2"]}

Image == {[srcPath |-> "projects/cover.png", caption |-> "Cover"]}

StartDates == {"2023-01-01"}

EndDates == {"2024-06-30"}

Project ==
    { r @@ s @@ c @@ t @@ e :
        r \in [name : Names, startDate : StartDates],
        s \in Optional("summary", SeqsUpTo(SummaryLine, MaxLines)),
        c \in Optional("cover", Image),
        t \in Optional("tags", SeqsUpTo(Tag, MaxTags)),
        e \in Optional("endDate", EndDates) }

\* the fields of the Profile type, by the kind of value they hold
ProfileStringFields == {"firstName", "lastName", "position"}

ProfileListFields == {"summary", "tags", "socialLinks"}

ProfileObjectFields == {"avatar", "location"}

ProfileFields == ProfileStringFields \cup ProfileListFields \cup ProfileObjectFields

\* firstName is required, every other field of a Profile is optional
ProfileOptionalFields == ProfileFields \ {"firstName"}

\* the scenario project of the testable properties
DemoProject ==
    [name |-> "Demo", summary |-> <<Str("One line.")>>, startDate |-> "2023-01-01"]

\* the shared socialLinks list the first profile refers to
SocialLinks == <<[url |-> "https://github.com/trekhleb"]>>

\* the profile with lastName, location and socialLinks; texts outside ASCII
\* are transliterated
ProfileDetailed ==
    [firstName |-> "Oleksii",
     lastName |-> "Trekhleb",
     position |-> "Senior Software Engineer @ Uber",
     summary |-> <<"Author of 180k * js-algorithms GitHub repo",
                   "8+ times on HackerNews homepage",
                   "15+ years of full-stack experience">>,
     avatar |-> [srcPath |-> "profile/avatar_500x500_v2.jpg",
                 caption |-> "Oleksii Trekhleb"],
     location |-> [name |-> "Amsterdam, The Netherlands - (from Ukraine)"],
     tags |-> <<>>,
     socialLinks |-> SocialLinks]

\* ProfileMinimal with firstName commented out along with lastName
ProfileMinimal_NoFirstName ==
    [position |-> "",
     summary |-> <<"zhuanzhu yu AI funeng he chengxuyuan shiye fazhan lingyu de fenxiang">>,
     avatar |-> [srcPath |-> "profile/avatar_500x500.png",
                 caption |-> "AI shidai de chengxuyuan"],
     tags |-> <<>>]

\* the profile whose lastName, location and socialLinks are commented out
ProfileMinimal ==
    [firstName |-> "AI shidai de chengxuyuan",
     position |-> "",
     summary |-> <<"zhuanzhu yu AI funeng he chengxuyuan shiye fazhan lingyu de fenxiang">>,
     avatar |-> [srcPath |-> "profile/avatar_500x500.png",
                 caption |-> "AI shidai de chengxuyuan"],
     tags |-> <<>>]

\* Publisher with the display string of HackerNews pasted into HackerNoon
Publisher_Duplicate ==
    [AITimeJournal |-> "AI Time Journal",
     CodeProject |-> "CodeProject",
     DOU |-> "DOU",
     DataDrivenInvestor |-> "Data Driven Investor",
     GeeksForGeeks |-> "GeeksForGeeks",
     HackerNews |-> "Hacker News",
     HackerNoon |-> "Hacker News",
     HowIGotJob |-> "HowIGotJob",
     ITNEXT |-> "ITNEXT",
     JavaScriptInPlainEnglish |-> "JavaScript in Plain English",
     KDnuggets |-> "KDnuggets",
     Newline |-> "Newline",
     TechCrunch |-> "TechCrunch",
     TowardsDataScience |-> "Towards Data Science"]

\* export enum Publisher: member name to display string
Publisher ==
    [AITimeJournal |-> "AI Time Journal",
     CodeProject |-> "CodeProject",
     DOU |-> "DOU",
     DataDrivenInvestor |-> "Data Driven Investor",
     GeeksForGeeks |-> "GeeksForGeeks",
     HackerNews |-> "Hacker News",
     HackerNoon |-> "HackerNoon",
     HowIGotJob |-> "HowIGotJob",
     ITNEXT |-> "ITNEXT",
     JavaScriptInPlainEnglish |-> "JavaScript in Plain English",
     KDnuggets |-> "KDnuggets",
     Newline |-> "Newline",
     TechCrunch |-> "TechCrunch",
     TowardsDataScience |-> "Towards Data Science"]

\* the route registry Greeting reads
routes == [projects |-> [path |-> "/projects"], blog |-> [path |-> "/blog"]]

----------------------------------------------------------------------------
(* React elements built by ProjectPreview *)

CardTitle(children) == [type |-> "CardTitle", children |-> children]

Tags(tags) == [type |-> "Tags", tags |-> tags, children |-> <<>>]

FluidImage(image) == [type |-> "FluidImage", image |-> image, children |-> <<>>]

Card(children) == [type |-> "Card", children |-> children]

CardMedia(children) == [type |-> "CardMedia", children |-> children]

CardContent(children) == [type |-> "CardContent", children |-> children]

\* DateRange with endDate={project.endDate || project.startDate}
DateRange_DefaultEnd(p, className) ==
    [type |-> "DateRange", startDate |-> p.startDate,
     endDate |-> (IF Defined(p, "endDate") THEN p.endDate ELSE p.startDate),
     className |-> className, children |-> <<>>]

\* <DateRange startDate={..} endDate={..} className=".."/>; a prop whose value
\* is undefined is left out of the record
DateRange(p, className) ==
    [type |-> "DateRange", startDate |-> p.startDate,
     className |-> className, children |-> <<>>]
    @@ (IF Defined(p, "endDate") THEN "endDate" :> p.endDate ELSE <<>>)

----------------------------------------------------------------------------
(* ProjectPreview *)

\* projectName showing another field of the project
projectName_WrongField(p) == CardTitle(<<p.startDate>>)

projectName(p) == CardTitle(<<p.name>>)

\* projectTags without its guard: <Tags tags={project.tags || []}/> always
projectTags_Always(p) ==
    [type |-> "div",
     children |-> <<Tags(IF Defined(p, "tags") THEN p.tags ELSE <<>>)>>]

projectTags(p) ==
    IF Truthy(p, "tags")
    THEN [type |-> "div", children |-> <<Tags(p.tags)>>]
    ELSE Null

projectDates(p) ==
    [type |-> "div", className |-> "mb-3",
     children |-> <<DateRange(p, "text-sm text-gray-600 font-light")>>]

\* projectSummaryLines over project.summary.filter(Boolean): null and
\* empty lines are dropped before the map
projectSummaryLines_SkipFalsy(p) ==
    IF Truthy(p, "summary")
    THEN LET kept == SelectSeq(p.summary, LAMBDA l : l # Null /\ l # Str(""))
         IN  [i \in 1..Len(kept) |->
                 [type |-> "p", key |-> i - 1, children |-> <<kept[i]>>]]
    ELSE Null

\* projectSummaryLines with keys drawn from a counter that lives across
\* calls instead of the index of the line
projectSummaryLines_KeyCounter(p) ==
    IF Truthy(p, "summary")
    THEN [i \in 1..Len(p.summary) |->
             [type |-> "p", key |-> Len(history) + i - 1,
              children |-> <<p.summary[i]>>]]
    ELSE Null

\* project.summary.map((summaryLine, index) => <p key={index}>{summaryLine}</p>)
\* or null; a sequence when it is an array, Null otherwise
projectSummaryLines(p) ==
    IF Truthy(p, "summary")
    THEN [i \in 1..Len(p.summary) |->
             [type |-> "p", key |-> i - 1, children |-> <<p.summary[i]>>]]
    ELSE Null

\* projectSummaryLines ? <div ..>{projectSummaryLines}</div> : null, where
\* projectSummaryLines is null or an array, and an array is truthy
projectSummary(p) ==
    IF Truthy(p, "summary")
    THEN [type |-> "div", className |-> "mb-3 font-light",
          children |-> projectSummaryLines(p)]
    ELSE Null

\* projectCover falling back to a stock image for a project without cover
projectCover_Fallback(p) ==
    IF Truthy(p, "cover")
    THEN FluidImage(p.cover)
    ELSE FluidImage([srcPath |-> "projects/default.png", caption |-> "Project"])

projectCover(p) ==
    IF Truthy(p, "cover") THEN FluidImage(p.cover) ELSE Null

\* ProjectPreview drawing an empty card for no project
ProjectPreview_Placeholder(props) ==
    IF props.project = Null
    THEN Card(<<CardMedia(<<Null>>), CardContent(<<>>)>>)
    ELSE Card(<<
            CardMedia(<<projectCover(props.project)>>),
            CardContent(<<
                projectName(props.project),
                projectSummary(props.project),
                projectTags(props.project),
                projectDates(props.project)>>)>>)

\* ProjectPreview with the tags placed above the summary
ProjectPreview_TagsFirst(props) ==
    IF props.project = Null
    THEN Null
    ELSE Card(<<
            CardMedia(<<projectCover(props.project)>>),
            CardContent(<<
                projectName(props.project),
                projectTags(props.project),
                projectSummary(props.project),
                projectDates(props.project)>>)>>)

\* ProjectPreview that gives up on a project without cover:
\* if (!project || !project.cover) return null
ProjectPreview_NeedsCover(props) ==
    IF props.project = Null \/ ~Truthy(props.project, "cover")
    THEN Null
    ELSE Card(<<
            CardMedia(<<projectCover(props.project)>>),
            CardContent(<<
                projectName(props.project),
                projectSummary(props.project),
                projectTags(props.project),
                projectDates(props.project)>>)>>)

ProjectPreview(props) ==
    IF props.project = Null
    THEN Null
    ELSE Card(<<
            CardMedia(<<projectCover(props.project)>>),
            CardContent(<<
                projectName(props.project),
                projectSummary(props.project),
                projectTags(props.project),
                projectDates(props.project)>>)>>)

----------------------------------------------------------------------------
(* Greeting *)

projectsLink == [url |-> routes.projects.path \o "/"]

blogLink == [url |-> routes.blog.path \o "/"]

HyperLink(link, className, children) ==
    [type |-> "HyperLink", link |-> link, className |-> className,
     children |-> children]

projectsLinkElement ==
    [type |-> "span", className |-> "inline-block",
     children |-> <<HyperLink(projectsLink, "underline underline-offset-2",
                              <<"projects">>)>>]

blogLinkElement ==
    [type |-> "span", className |-> "inline-block",
     children |-> <<HyperLink(blogLink, "underline underline-offset-2",
                              <<"articles">>)>>]

\* the two sentences of the greeting, transliterated
GreetingText ==
    "Da moxing de chuxian rang women jinru le AI shidai ... shixian geng hao de fazhan."

\* Greeting with the two link elements placed after the text
Greeting_WithLinks ==
    [type |-> "p", className |-> "font-light",
     children |-> <<GreetingText, projectsLinkElement, blogLinkElement>>]

\* projectsLinkElement and blogLinkElement are built and not used
Greeting ==
    [type |-> "p", className |-> "font-light", children |-> <<GreetingText>>]

----------------------------------------------------------------------------
(* The driver: the registry is declared once, then the page renders        *)
(* previews, of no project or of a registry record, one call at a time.    *)

\* the state once the registries are declared, the second project of the
\* registry being one of P
InitFrom(P) ==
    /\ projects \in {<<DemoProject, p>> : p \in P}
    /\ project = Null
    /\ output = Null
    /\ history = <<>>
    /\ fresh = [none |-> ProjectPreview([project |-> Null]),
                of |-> [i \in DOMAIN projects |->
                           ProjectPreview([project |-> projects[i]])]]
    /\ profiles = <<ProfileDetailed, ProfileMinimal>>
    /\ greetings = <<>>
    /\ frame = Null
    /\ publishers = Publisher

Init == InitFrom(Project)

\* Render by a component that defaults the tags of its project in place:
\* project.tags = project.tags || []
Render_DefaultsInPlace(p) ==
    /\ Len(history) < MaxCalls
    /\ project' = p
    /\ output' = ProjectPreview([project |-> p])
    /\ history' = Append(history, [project |-> p, output |-> output'])
    /\ projects' = [k \in DOMAIN projects |->
                       IF projects[k] = p /\ ~Defined(p, "tags")
                       THEN p @@ ("tags" :> <<>>)
                       ELSE projects[k]]
    /\ UNCHANGED <<fresh, profiles, publishers, greetings, frame>>

Render(p) ==
    /\ Len(history) < MaxCalls
    /\ project' = p
    /\ output' = ProjectPreview([project |-> p])
    /\ history' = Append(history, [project |-> p, output |-> output'])
    /\ UNCHANGED <<projects, fresh, profiles, publishers, greetings, frame>>

RenderNull == Render(Null)

RenderProject == \E i \in DOMAIN projects : Render(projects[i])

Next == RenderNull \/ RenderProject

Spec == Init /\ [][Next]_vars

----------------------------------------------------------------------------
(* The site: the page calls Greeting as well as ProjectPreview.            *)

RenderGreeting ==
    /\ greetings' = Append(greetings, Greeting)
    /\ UNCHANGED <<projects, project, output, history, fresh, profiles, publishers, frame>>

SiteCallsLeft == Len(history) + Len(greetings) < MaxSiteCalls

NextSite ==
    \/ SiteCallsLeft /\ RenderNull
    \/ SiteCallsLeft /\ RenderProject
    \/ SiteCallsLeft /\ RenderGreeting

SpecSite == Init /\ [][NextSite]_vars

----------------------------------------------------------------------------
(* ProjectPreview statement by statement: a call is a frame that the       *)
(* engine executes step by step; the function is synchronous (no await, no *)
(* yield), so the engine starts a call only when no call is executing and  *)
(* always takes the next step of the call that is.                         *)

\* the projects that differ in their summary only
StepProjects ==
    {p \in Project : DOMAIN p \subseteq {"name", "startDate", "summary"} /\ p.name = "Other"}

InitSteps == InitFrom(StepProjects)

Begin(p) ==
    /\ frame = Null
    /\ Len(history) < MaxCalls
    /\ frame' = [project |-> p, pc |-> "guard", index |-> 0, lines |-> <<>>]
    /\ UNCHANGED <<projects, project, output, history, fresh, profiles, publishers, greetings>>

BeginNull == Begin(Null)

BeginProject == \E i \in DOMAIN projects : Begin(projects[i])

\* the call returns out
Complete(out) ==
    /\ project' = frame.project
    /\ output' = out
    /\ history' = Append(history, [project |-> frame.project, output |-> out])
    /\ frame' = Null
    /\ UNCHANGED <<projects, fresh, profiles, publishers, greetings>>

\* if (!project) return null
Guard ==
    /\ frame # Null
    /\ frame.pc = "guard"
    /\ IF frame.project = Null
       THEN Complete(Null)
       ELSE /\ frame' = [frame EXCEPT !.pc = "map"]
            /\ UNCHANGED <<projects, project, output, history, fresh, profiles, publishers, greetings>>

\* the map that stays on a null line for ever
MapStep_StuckOnNull ==
    /\ frame # Null
    /\ frame.pc = "map"
    /\ Truthy(frame.project, "summary")
    /\ frame.index < Len(frame.project.summary)
    /\ frame' = IF frame.project.summary[frame.index + 1] = Null
                THEN frame
                ELSE [frame EXCEPT
                        !.lines = Append(@, [type |-> "p", key |-> frame.index,
                                             children |-> <<frame.project.summary[frame.index + 1]>>]),
                        !.index = @ + 1]
    /\ UNCHANGED <<projects, project, output, history, fresh, profiles, publishers, greetings>>

\* one call of the callback of project.summary.map: the paragraph of the
\* line at index (0-based) is added and the index moves on
MapStep ==
    /\ frame # Null
    /\ frame.pc = "map"
    /\ Truthy(frame.project, "summary")
    /\ frame.index < Len(frame.project.summary)
    /\ frame' = [frame EXCEPT
                    !.lines = Append(@, [type |-> "p", key |-> frame.index,
                                         children |-> <<frame.project.summary[frame.index + 1]>>]),
                    !.index = @ + 1]
    /\ UNCHANGED <<projects, project, output, history, fresh, profiles, publishers, greetings>>

\* the map is over (or there is no summary): the elements are built and
\* the Card is returned
Return ==
    /\ frame # Null
    /\ frame.pc = "map"
    /\ Truthy(frame.project, "summary") => frame.index = Len(frame.project.summary)
    /\ Complete(Card(<<
            CardMedia(<<projectCover(frame.project)>>),
            CardContent(<<
                projectName(frame.project),
                IF Truthy(frame.project, "summary")
                THEN [type |-> "div", className |-> "mb-3 font-light",
                      children |-> frame.lines]
                ELSE Null,
                projectTags(frame.project),
                projectDates(frame.project)>>)>>))

Step == Guard \/ MapStep \/ Return

NextSteps == BeginNull \/ BeginProject \/ Guard \/ MapStep \/ Return

SpecSteps == InitSteps /\ [][NextSteps]_vars /\ WF_vars(Step)

----------------------------------------------------------------------------
(* The component DateRange is a peer component whose source is not part of *)
(* the files modelled here; its text is the one the testable properties    *)
(* give: the start date, a dash, and the end date or "present" (the dash   *)
(* is U+2013 in the site and ASCII here).                                  *)

DateRangeText(el) ==
    el.startDate \o " - " \o (IF Defined(el, "endDate") THEN el.endDate ELSE "present")

----------------------------------------------------------------------------
(* Reading an output tree *)

Called == Len(history) > 0

\* the elements whose children are text, not elements
IsTextHolder(e) == e.type \in {"CardTitle", "p"}

RECURSIVE FlattenAll(_)
\* the elements of a sequence of children, parents before children, in
\* document order; null children are skipped
FlattenAll(children) ==
    IF children = <<>>
    THEN <<>>
    ELSE LET e == Head(children)
         IN  (IF e = Null
              THEN <<>>
              ELSE <<e>> \o (IF IsTextHolder(e) THEN <<>> ELSE FlattenAll(e.children)))
             \o FlattenAll(Tail(children))

Elements(out) == FlattenAll(<<out>>)

IsTitle(e) == e.type = "CardTitle"

IsSummarySection(e) ==
    e.type = "div" /\ Defined(e, "className") /\ e.className = "mb-3 font-light"

HasOnlyChild(e, type) ==
    Len(e.children) = 1 /\ e.children[1] # Null /\ e.children[1].type = type

IsTagsSection(e) == e.type = "div" /\ HasOnlyChild(e, "Tags")

IsDateSection(e) == e.type = "div" /\ HasOnlyChild(e, "DateRange")

IsCoverSection(e) == e.type = "FluidImage"

Titles(out) == SelectSeq(Elements(out), IsTitle)

SummarySections(out) == SelectSeq(Elements(out), IsSummarySection)

TagsSections(out) == SelectSeq(Elements(out), IsTagsSection)

DateSections(out) == SelectSeq(Elements(out), IsDateSection)

CoverSections(out) == SelectSeq(Elements(out), IsCoverSection)

\* a container (anything but a leaf component or a text holder) none of
\* whose children is an element
IsEmptyContainer(e) ==
    /\ e.type \in {"Card", "CardMedia", "CardContent", "div"}
    /\ \A i \in DOMAIN e.children : e.children[i] = Null

RenderedProject == Called /\ project # Null

----------------------------------------------------------------------------
(* Properties of the rendering contract *)

\* C1: a call with project = null returns null: no tree at all, neither an
\* error value nor a placeholder element.
C1_NullRendersNothing ==
    \A i \in DOMAIN history :
        history[i].project = Null => history[i].output = Null

C1_Witness == Called /\ project = Null /\ output = Null

\* C2 (as claimed): for a non-null project the output has a summary section
\* exactly when project.summary is a non-empty list.
C2_SummarySectionIffNonEmpty ==
    RenderedProject =>
        (Len(SummarySections(output)) > 0
            <=> (Defined(project, "summary") /\ Len(project.summary) > 0))

\* C3 (as claimed): for a non-null project the output has a tags section
\* exactly when project.tags is present and a non-empty list.
C3_TagsSectionIffNonEmpty ==
    RenderedProject =>
        (Len(TagsSections(output)) > 0
            <=> (Defined(project, "tags") /\ Len(project.tags) > 0))

\* C4: for a non-null project the output has exactly one title section and
\* its content is project.name.
C4_OneTitleWithName ==
    RenderedProject =>
        /\ Len(Titles(output)) = 1
        /\ Titles(output)[1].children = <<project.name>>

C4_Witness == RenderedProject /\ project.name = "Other" /\ Len(Titles(output)) = 1

\* C5: for a non-null project the output has exactly one date-range section,
\* whatever optional fields the project has, and its DateRange gets the
\* project's startDate and endDate as they are: an absent endDate stays
\* absent.
C5_OneDateRangeUnchanged ==
    RenderedProject =>
        /\ Len(DateSections(output)) = 1
        /\ LET dr == DateSections(output)[1].children[1]
           IN  /\ dr.startDate = project.startDate
               /\ Defined(dr, "endDate") <=> Defined(project, "endDate")
               /\ Defined(dr, "endDate") => dr.endDate = project.endDate

C5_Witness ==
    /\ RenderedProject
    /\ ~Defined(project, "endDate")
    /\ ~Defined(project, "tags")
    /\ ~Defined(DateSections(output)[1].children[1], "endDate")
    /\ \E i \in DOMAIN history : Defined(history[i].project, "endDate")

\* C6: the summary section of a project with n summary lines has exactly n
\* paragraphs, and the i-th paragraph holds the i-th line, whatever the
\* line is (a text, the empty text or null).
C6_SummaryLinesInOrder ==
    (RenderedProject /\ Defined(project, "summary")) =>
        /\ Len(SummarySections(output)) = 1
        /\ LET ps == SummarySections(output)[1].children
           IN  /\ Len(ps) = Len(project.summary)
               /\ \A i \in DOMAIN ps :
                      ps[i].type = "p" /\ ps[i].children = <<project.summary[i]>>

C6_Witness ==
    /\ RenderedProject
    /\ Defined(project, "summary")
    /\ Len(project.summary) = MaxLines
    /\ project.summary[1] = Null
    /\ project.summary[MaxLines] = Str("One line.")
    /\ SummarySections(output)[1].children[1].children = <<Null>>

C10_NoEmptySection ==
    RenderedProject =>
        /\ Len(CoverSections(output)) = (IF Defined(project, "cover") THEN 1 ELSE 0)
        /\ Len(TagsSections(output)) = (IF Defined(project, "tags") THEN 1 ELSE 0)
        /\ Len(SummarySections(output)) = (IF Defined(project, "summary") THEN 1 ELSE 0)
        /\ \A i \in DOMAIN Elements(output) : ~IsEmptyContainer(Elements(output)[i])

\* the project without the property f
Without(p, f) == [g \in DOMAIN p \ {f} |-> p[g]]

\* the project with an empty tags list and an empty summary list left out
CollapseEmpty(p) ==
    LET q == IF Defined(p, "tags") /\ p.tags = <<>> THEN Without(p, "tags") ELSE p
    IN  IF Defined(q, "summary") /\ q.summary = <<>> THEN Without(q, "summary") ELSE q

\* C11 (as claimed): an empty list and an absent field collapse alike: two
\* projects that differ only in tags being [] or absent, or in summary being
\* [] or absent, render to the same output.
C11_EmptyLikeAbsent ==
    \A i, j \in DOMAIN history :
        (/\ history[i].project # Null
         /\ history[j].project # Null
         /\ CollapseEmpty(history[i].project) = CollapseEmpty(history[j].project))
            => history[i].output = history[j].output

\* C12: a call returns null exactly when its project is null; for every
\* non-null project, whichever of cover, tags and endDate are absent, the
\* call returns a tree rooted at a Card that has content.
C12_OnlyNullRendersNothing ==
    \A i \in DOMAIN history :
        /\ history[i].output = Null <=> history[i].project = Null
        /\ history[i].project # Null =>
              /\ history[i].output.type = "Card"
              /\ \E k \in DOMAIN history[i].output.children :
                    history[i].output.children[k] # Null

C12_Witness ==
    /\ RenderedProject
    /\ ~Defined(project, "cover")
    /\ ~Defined(project, "tags")
    /\ ~Defined(project, "endDate")
    /\ output.type = "Card"
    /\ \E i \in DOMAIN history :
          /\ history[i].project # Null
          /\ Defined(history[i].project, "cover")
          /\ ~Defined(history[i].project, "summary")

\* C13: no call changes the data layer: across every ProjectPreview and
\* Greeting call the projects registry and the profile records keep their
\* values, and every project a call was given is still the registry record
\* it was.
C13_DataLayerUnchanged ==
    /\ [](\A i \in DOMAIN history :
            \/ history[i].project = Null
            \/ \E k \in DOMAIN projects : history[i].project = projects[k])
    /\ [][projects' = projects /\ profiles' = profiles]_vars

C13_Witness ==
    /\ RenderedProject
    /\ Len(greetings) > 0
    /\ projects[1] = DemoProject
    /\ \E k \in DOMAIN projects : project = projects[k]

\* the field f of the profile r holds the empty string, the empty list or null
IsEmptySentinel(r, f) ==
    IF f \in ProfileStringFields THEN r[f] = ""
    ELSE IF f \in ProfileListFields THEN r[f] = <<>>
    ELSE r[f] = Null

\* C14 (as claimed): no declared profile has an optional field that holds
\* the empty string, an empty list or null: what does not apply is left out.
C14_NoEmptySentinel ==
    \A k \in DOMAIN profiles :
        \A f \in DOMAIN profiles[k] \cap ProfileOptionalFields :
            ~IsEmptySentinel(profiles[k], f)

\* the fields every declared profile carries
CarriedByAll == {f \in ProfileFields : \A k \in DOMAIN profiles : Defined(profiles[k], f)}

Present(e) == SelectSeq(e.children, LAMBDA c : c # Null)

\* the place of a section in the content container, 0 for anything else
SectionRank(e) ==
    IF IsTitle(e) THEN 1
    ELSE IF IsSummarySection(e) THEN 2
    ELSE IF IsTagsSection(e) THEN 3
    ELSE IF IsDateSection(e) THEN 4
    ELSE 0

\* C18: the output for a non-null project is a Card with exactly two
\* children, the media container and then the content container, and the
\* sections of the content container come in the order title, summary,
\* tags, date range.
C18_CardLayout ==
    RenderedProject =>
        /\ output.type = "Card"
        /\ Len(output.children) = 2
        /\ output.children[1].type = "CardMedia"
        /\ output.children[2].type = "CardContent"
        /\ LET sections == Present(output.children[2])
           IN  /\ \A i \in DOMAIN sections : SectionRank(sections[i]) > 0
               /\ \A i, j \in DOMAIN sections :
                      i < j => SectionRank(sections[i]) < SectionRank(sections[j])

C18_Witness ==
    /\ RenderedProject
    /\ Defined(project, "summary")
    /\ Defined(project, "tags")
    /\ Len(Present(output.children[2])) = 4
    /\ SectionRank(Present(output.children[2])[2]) = 2
    /\ SectionRank(Present(output.children[2])[3]) = 3

\* C19: the media container of the output for a non-null project holds a
\* cover image exactly when project.cover is present, and then the image is
\* project.cover; a tags section, when there is one, is given project.tags.
C19_CoverAndTagsPassedOn ==
    RenderedProject =>
        /\ LET images == SelectSeq(Present(output.children[1]), IsCoverSection)
           IN  /\ Len(images) = (IF Defined(project, "cover") THEN 1 ELSE 0)
               /\ Defined(project, "cover") => images[1].image = project.cover
        /\ \A i \in DOMAIN TagsSections(output) :
              /\ Defined(project, "tags")
              /\ TagsSections(output)[i].children[1].tags = project.tags

C19_Witness ==
    /\ RenderedProject
    /\ Defined(project, "cover")
    /\ Defined(project, "tags")
    /\ Len(project.tags) = MaxTags
    /\ Len(TagsSections(output)) = 1
    /\ Present(output.children[1])[1].image = project.cover
    /\ \E i \in DOMAIN history :
          history[i].project # Null /\ ~Defined(history[i].project, "cover")

\* C20: every Greeting call returns the same single paragraph, whose only
\* content is the fixed text: the two link elements the component builds
\* are not in it.
C20_GreetingFixedText ==
    \A i \in DOMAIN greetings :
        /\ greetings[i].type = "p"
        /\ Len(greetings[i].children) = 1
        /\ greetings[i].children[1] = GreetingText
        /\ greetings[i] = greetings[1]

C20_Witness ==
    /\ Len(greetings) = 2
    /\ greetings[2] = greetings[1]
    /\ projectsLinkElement.children[1].link.url = "/projects/"
    /\ blogLinkElement.children[1].link.url = "/blog/"

\* C21: the Publisher enumeration has 14 members and no two of them have
\* the same display string, so a display string names exactly one member.
C21_PublisherStringsDistinct ==
    /\ Cardinality(DOMAIN publishers) = 14
    /\ Cardinality({publishers[m] : m \in DOMAIN publishers}) = 14
    /\ \A a, b \in DOMAIN publishers : publishers[a] = publishers[b] => a = b

C21_Witness ==
    /\ Len(greetings) + Len(history) > 0
    /\ publishers["HackerNews"] = "Hacker News"
    /\ publishers["HackerNoon"] = "HackerNoon"
    /\ \A m \in DOMAIN publishers :
          publishers[m] = "Hacker News" => m = "HackerNews"

====
